---------------------------- MODULE Spec2Model ----------------------------
(***************************************************************************)
(* Model of real_estate.py: the two calculation functions calculate_roi    *)
(* and calculate_rent_vs_buy, and the part of the page script that calls   *)
(* them (which page runs, which module-level names that run binds, and the *)
(* two buttons).                                                           *)
(*                                                                         *)
(* Numbers.  The script computes on Python ints and floats.  The model     *)
(* computes on exact rationals, so every formula below is a statement      *)
(* about the arithmetic the code writes down, free of binary rounding.     *)
(* Python's int is unbounded and (1 + monthly_rate) ** -num_payments needs *)
(* far more than 32 bits, so naturals are digit sequences.  What Python    *)
(* does beyond arithmetic is kept: `/` raises ZeroDivisionError on a zero  *)
(* divisor, a free name that is not bound raises NameError, float('inf')   *)
(* is a value of its own.                                                  *)
(***************************************************************************)
EXTENDS Integers, Sequences, FiniteSets

---------------------------------------------------------------------------
(* Unbounded naturals: base-1000 digits, least significant first, no       *)
(* leading zero digit; 0 is the empty sequence.                            *)

RECURSIVE Big(_)
Big(n) == IF n = 0 THEN << >> ELSE <<n % 1000>> \o Big(n \div 1000)

RECURSIVE Trim(_)
Trim(a) ==
    IF a = << >> THEN a
    ELSE IF a[Len(a)] = 0 THEN Trim(SubSeq(a, 1, Len(a) - 1)) ELSE a

Digit(a, i) == IF i <= Len(a) THEN a[i] ELSE 0

MaxOf(x, y) == IF x >= y THEN x ELSE y

MinOf(x, y) == IF x <= y THEN x ELSE y

\* Column sums c[i..] with incoming carry k, turned into digits.
RECURSIVE Carry(_, _, _)
Carry(c, i, k) ==
    IF i > Len(c) THEN Big(k)
    ELSE LET s == c[i] + k
         IN  <<s % 1000>> \o Carry(c, i + 1, s \div 1000)

BigAdd(a, b) ==
    Carry([i \in 1..MaxOf(Len(a), Len(b)) |-> Digit(a, i) + Digit(b, i)], 1, 0)

\* a - b for a >= b.
RECURSIVE Borrow(_, _, _, _)
Borrow(a, b, i, k) ==
    IF i > Len(a) THEN << >>
    ELSE LET x == a[i] - Digit(b, i) - k
         IN  IF x < 0 THEN <<x + 1000>> \o Borrow(a, b, i + 1, 1)
                      ELSE <<x>> \o Borrow(a, b, i + 1, 0)

BigSub(a, b) == Trim(Borrow(a, b, 1, 0))

\* Sum of a[i] * b[k + 1 - i] over the i in lo..hi.
RECURSIVE ColSum(_, _, _, _, _)
ColSum(a, b, k, lo, hi) ==
    IF lo > hi THEN 0 ELSE a[lo] * b[k + 1 - lo] + ColSum(a, b, k, lo + 1, hi)

BigMul(a, b) ==
    IF a = << >> \/ b = << >> THEN << >>
    ELSE Trim(Carry([k \in 1..(Len(a) + Len(b) - 1) |->
                        ColSum(a, b, k, MaxOf(1, k + 1 - Len(b)), MinOf(Len(a), k))],
                    1, 0))

\* -1, 0, 1 as a < b, a = b, a > b.
RECURSIVE CmpFrom(_, _, _)
CmpFrom(a, b, i) ==
    IF i = 0 THEN 0
    ELSE IF a[i] < b[i] THEN -1
    ELSE IF a[i] > b[i] THEN 1
    ELSE CmpFrom(a, b, i - 1)

BigCmp(a, b) ==
    IF Len(a) < Len(b) THEN -1
    ELSE IF Len(a) > Len(b) THEN 1
    ELSE CmpFrom(a, b, Len(a))

---------------------------------------------------------------------------
(* Numbers: sign, numerator, denominator.  A zero denominator is           *)
(* float('inf') (numerator nonzero) or nan (numerator zero).  Equal        *)
(* numbers may differ in representation: compare with RCmp.               *)

\* The value of a natural of at most three digits.
Small(a) == Digit(a, 1) + 1000 * Digit(a, 2) + 1000000 * Digit(a, 3)

RECURSIVE Gcd(_, _)
Gcd(x, y) == IF y = 0 THEN x ELSE Gcd(y, x % y)

\* Zero is 0/1; a fraction of small terms is kept in lowest terms.
Num(neg, num, den) ==
    IF den = << >> THEN [neg |-> neg /\ num # << >>, num |-> num, den |-> den]
    ELSE IF num = << >> THEN [neg |-> FALSE, num |-> num, den |-> Big(1)]
    ELSE IF Len(num) <= 3 /\ Len(den) <= 3
    THEN LET g == Gcd(Small(num), Small(den))
         IN  [neg |-> neg, num |-> Big(Small(num) \div g),
              den |-> Big(Small(den) \div g)]
    ELSE [neg |-> neg, num |-> num, den |-> den]

Q(n) == Num(n < 0, Big(IF n < 0 THEN -n ELSE n), Big(1))

Frac(n, d) == Num(n < 0, Big(IF n < 0 THEN -n ELSE n), Big(d))

Inf == Num(FALSE, Big(1), << >>)

IsFinite(a) == a.den # << >>

IsZero(a) == a.num = << >> /\ a.den # << >>

IsPos(a) == ~a.neg /\ a.num # << >>

RNeg(a) == Num(~a.neg, a.num, a.den)

\* Sum of two signed magnitudes over the common denominator d.
Signed(an, x, bn, y, d) ==
    IF an = bn THEN Num(an, BigAdd(x, y), d)
    ELSE IF BigCmp(x, y) >= 0 THEN Num(an, BigSub(x, y), d)
    ELSE Num(bn, BigSub(y, x), d)

RAdd(a, b) ==
    IF a.den = b.den THEN Signed(a.neg, a.num, b.neg, b.num, a.den)
    ELSE Signed(a.neg, BigMul(a.num, b.den), b.neg, BigMul(b.num, a.den),
                BigMul(a.den, b.den))

RSub(a, b) == RAdd(a, RNeg(b))

RMul(a, b) == Num(a.neg # b.neg, BigMul(a.num, b.num), BigMul(a.den, b.den))

\* 1 / a for a # 0.
RInv(a) == Num(a.neg, a.den, a.num)

\* -1, 0, 1 as a < b, a = b, a > b (finite a, b).
RCmp(a, b) ==
    LET x == BigMul(a.num, b.den)
        y == BigMul(b.num, a.den)
    IN  IF a.neg /\ ~b.neg THEN -1
        ELSE IF ~a.neg /\ b.neg THEN 1
        ELSE IF a.neg THEN BigCmp(y, x)
        ELSE BigCmp(x, y)

REq(a, b) == RCmp(a, b) = 0

RLeq(a, b) == RCmp(a, b) <= 0

RLt(a, b) == RCmp(a, b) < 0

\* acc * a ** e for an integer e >= 0, one factor at a time.
RECURSIVE RPowAcc(_, _, _)
RPowAcc(a, e, acc) ==
    IF e = 0 THEN acc
    ELSE LET next == RMul(acc, a)
         IN  IF next.neg \in BOOLEAN THEN RPowAcc(a, e - 1, next) ELSE next

\* a ** e for an integer e >= 0.
RPowNat(a, e) == RPowAcc(a, e, Q(1))


---------------------------------------------------------------------------
(* What Python does around the arithmetic.                                 *)

\* A raised exception, as the value of the expression that raised it.
Raise(name) == [exc |-> name]

IsExc(v) == "exc" \in DOMAIN v

\* a / b for a divisor the code writes as a nonzero literal (100, 12).
RDiv(a, b) == RMul(a, RInv(b))

\* A bug: a / b with a zero divisor yielding inf (nan for 0 / 0), as IEEE
\* division does, where Python raises.
PyDivInf(a, b) ==
    IF IsZero(b) THEN [neg |-> a.neg, num |-> a.num, den |-> << >>]
    ELSE RMul(a, RInv(b))

\* a / b: int and float division both raise on a zero divisor; neither
\* yields inf or nan.
PyDiv(a, b) == IF IsZero(b) THEN Raise("ZeroDivisionError") ELSE RMul(a, RInv(b))

\* a ** e for an integer e of either sign.
PyPow(a, e) ==
    IF e >= 0 THEN RPowNat(a, e)
    ELSE IF IsZero(a) THEN Raise("ZeroDivisionError")
    ELSE RInv(RPowNat(a, -e))

\* l[-1]
PyLast(l) == IF Len(l) = 0 THEN Raise("IndexError") ELSE l[Len(l)]

\* A free name of a function body, looked up in the module's namespace.
Lookup(ns, name) == IF name \in DOMAIN ns THEN ns[name] ELSE Raise("NameError")

\* The value of a name that is not bound (yet).
Unbound == << >>

\* break_even = None
None == 0

---------------------------------------------------------------------------
(* calculate_roi.  A Python list l is the sequence with l[i] at i + 1.     *)

\* A bug: the exponent dropped, purchase_price * (1 + appreciation_rate / 100).
PropertyValuesNoPower(purchase_price, appreciation_rate, years) ==
    [j \in 1..(years + 1) |->
        RMul(purchase_price, RAdd(Q(1), RDiv(appreciation_rate, Q(100))))]

\* A bug: the projection starting a year late, for i in range(1, years + 2).
PropertyValuesFromYearOne(purchase_price, appreciation_rate, years) ==
    [j \in 1..(years + 1) |->
        RMul(purchase_price,
             RPowNat(RAdd(Q(1), RDiv(appreciation_rate, Q(100))), j))]

\* [purchase_price * ((1 + appreciation_rate / 100) ** i) for i in range(years + 1)]
PropertyValues(purchase_price, appreciation_rate, years) ==
    [j \in 1..(years + 1) |->
        RMul(purchase_price,
             PyPow(RAdd(Q(1), RDiv(appreciation_rate, Q(100))), j - 1))]

\* A bug: range(years) for range(years + 1).
EquitiesShort(property_values, purchase_price, down_payment, years) ==
    [j \in 1..years |->
        RSub(property_values[j], RSub(purchase_price, down_payment))]

\* [property_values[i] - (purchase_price - down_payment) for i in range(years + 1)]
Equities(property_values, purchase_price, down_payment, years) ==
    [j \in 1..(years + 1) |->
        RSub(property_values[j], RSub(purchase_price, down_payment))]

\* The returned tuple, or the exception the call ends in.
calculate_roi(purchase_price, rental_income, expenses, appreciation_rate, years, down_payment) ==
    LET annual_cash_flow == RSub(RMul(rental_income, Q(12)), expenses)
        total_cash_flow  == RMul(annual_cash_flow, Q(years))
        property_values  == PropertyValues(purchase_price, appreciation_rate, years)
        equities         == Equities(property_values, purchase_price, down_payment,
                                     years)
        last             == PyLast(equities)
        roi_q            == PyDiv(RSub(RAdd(total_cash_flow, last), down_payment),
                                  down_payment)
        coc_q            == PyDiv(annual_cash_flow, down_payment)
        break_even_years == IF IsPos(annual_cash_flow)
                            THEN PyDiv(down_payment, annual_cash_flow)
                            ELSE Inf
    IN  IF IsExc(last) THEN last
        ELSE IF IsExc(roi_q) THEN roi_q
        ELSE IF IsExc(coc_q) THEN coc_q
        ELSE [roi              |-> RMul(roi_q, Q(100)),
              total_cash_flow  |-> total_cash_flow,
              property_values  |-> property_values,
              equities         |-> equities,
              coc_roi          |-> RMul(coc_q, Q(100)),
              break_even_years |-> break_even_years]

---------------------------------------------------------------------------
(* calculate_rent_vs_buy, up to the loop.                                  *)

\* A bug: the sign of the growth rate, rent * (1 - inflation_rate / 100) ** i.
RentTermDeflating(rent, inflation_rate, i) ==
    RMul(rent, RPowNat(RSub(Q(1), RDiv(inflation_rate, Q(100))), i))

\* One term of the sum of line 20: rent * (1 + inflation_rate / 100) ** i
RentTerm(rent, inflation_rate, i) ==
    RMul(rent, PyPow(RAdd(Q(1), RDiv(inflation_rate, Q(100))), i))

\* sum([rent * (1 + inflation_rate / 100) ** i for i in range(years)])
RECURSIVE TotalRentPaid(_, _, _)
TotalRentPaid(rent, inflation_rate, years) ==
    IF years <= 0 THEN Q(0)
    ELSE RAdd(TotalRentPaid(rent, inflation_rate, years - 1),
              RentTerm(rent, inflation_rate, years - 1))

\* (loan_amount * monthly_rate) / (1 - (1 + monthly_rate) ** -num_payments)
MonthlyPayment(home_price, mortgage_rate, years, down_payment) ==
    LET loan_amount  == RSub(home_price, down_payment)
        monthly_rate == RDiv(RDiv(mortgage_rate, Q(100)), Q(12))
        num_payments == years * 12
        discount     == PyPow(RAdd(Q(1), monthly_rate), -num_payments)
    IN  IF IsExc(discount) THEN discount
        ELSE PyDiv(RMul(loan_amount, monthly_rate), RSub(Q(1), discount))

\* Lines 22-29: [monthly_payment, total_home_cost], or the exception raised.
\* The else branch reads appreciation_rate, which is no parameter and no
\* local: Python resolves it in the module's namespace ns.
TotalHomeCost(home_price, mortgage_rate, years, down_payment, ns) ==
    IF IsPos(mortgage_rate)
    THEN LET monthly_payment == MonthlyPayment(home_price, mortgage_rate, years,
                                               down_payment)
         IN  IF IsExc(monthly_payment) THEN monthly_payment
             ELSE [monthly_payment |-> monthly_payment,
                   total_home_cost |->
                       RAdd(RMul(monthly_payment, Q(years * 12)), down_payment)]
    ELSE LET appreciation_rate == Lookup(ns, "appreciation_rate")
         IN  IF IsExc(appreciation_rate) THEN appreciation_rate
             ELSE [monthly_payment |-> Unbound,
                   total_home_cost |->
                       RMul(home_price,
                            PyPow(RAdd(Q(1), RDiv(appreciation_rate, Q(100))),
                                  years))]

\* cumulative_rent += rent * (1 + inflation_rate / 100) ** (t - 1) * 12
YearRent(rent, inflation_rate, t) ==
    RMul(RMul(rent, PyPow(RAdd(Q(1), RDiv(inflation_rate, Q(100))), t - 1)), Q(12))

\* A bug: < for <=.
BreakEvenReachedStrict(cumulative_buy, cumulative_rent) ==
    RLt(cumulative_buy, cumulative_rent)

\* if cumulative_buy <= cumulative_rent:
BreakEvenReached(cumulative_buy, cumulative_rent) ==
    RLeq(cumulative_buy, cumulative_rent)


---------------------------------------------------------------------------
(* Inputs.  Amounts are whole dollars, rates are tenths of a percent point *)
(* (the sliders step by 0.1), years are integers.                          *)

\* The longest horizon explored (the sliders go to 30).
MaxYears == 3

Tenths(S) == {Frac(k, 10) : k \in S}

Dollars(S) == {Q(n) : n \in S}

PurchasePrices == Dollars({0, 200000})

RentalIncomes == Dollars({0, 1500})

ExpensesValues == Dollars({0, 5000, 20000})

AppreciationRates == Tenths({0, 30, 100})

RoiDownPayments == Dollars({0, 40000})

Rents == Dollars({0, 1500})

HomePrices == Dollars({18000, 21000, 200000})

MortgageRates == Tenths({0, 40, 100})

InflationRates == Tenths({0, 20, 100})

DownPayments == Dollars({0, 18000, 20000})

\* The duration sliders: min_value=1.
SliderYears == 1..MaxYears

\* A caller without the sliders may also pass years = 0.
CallYears == 0..MaxYears

RoiArgs(Y) ==
    [purchase_price : PurchasePrices, rental_income : RentalIncomes,
     expenses : ExpensesValues, appreciation_rate : AppreciationRates,
     years : Y, down_payment : RoiDownPayments]

RentVsBuyArgs(Y) ==
    [rent : Rents, home_price : HomePrices, mortgage_rate : MortgageRates,
     years : Y, inflation_rate : InflationRates, down_payment : DownPayments]

---------------------------------------------------------------------------
(* State.                                                                  *)
(*   menu       the page the last run of the script rendered               *)
(*   globals    the module namespace, restricted to the one name a         *)
(*              function body reads from it: appreciation_rate             *)
(*   pc         "idle", or where the running call is: "loop" (lines        *)
(*              34-40), "exit" (the loop is left), "returned", "raised"    *)
(*   fn, args   the function called and its arguments                      *)
(*   the locals of calculate_rent_vs_buy, under their names                *)
(*   ret, exc   the tuple returned, the exception raised                   *)

VARIABLES menu, globals, pc, fn, args, total_rent_paid, total_home_cost,
          monthly_payment, break_even, cumulative_rent, cumulative_buy, t,
          ret, exc

locals == <<total_rent_paid, total_home_cost, monthly_payment, break_even,
            cumulative_rent, cumulative_buy, t>>

vars == <<menu, globals, pc, fn, args, total_rent_paid, total_home_cost,
          monthly_payment, break_even, cumulative_rent, cumulative_buy, t,
          ret, exc>>

\* The namespace of a run that bound no appreciation_rate.
NoGlobals == << >>

NoLocals ==
    /\ total_rent_paid' = Unbound
    /\ total_home_cost' = Unbound
    /\ monthly_payment' = Unbound
    /\ break_even' = None
    /\ cumulative_rent' = Unbound
    /\ cumulative_buy' = Unbound
    /\ t' = 0

\* The first run of the script: the radio's default is its first option.
Init ==
    /\ menu = "Overview"
    /\ globals = NoGlobals
    /\ pc = "idle"
    /\ fn = ""
    /\ args = Unbound
    /\ total_rent_paid = Unbound
    /\ total_home_cost = Unbound
    /\ monthly_payment = Unbound
    /\ break_even = None
    /\ cumulative_rent = Unbound
    /\ cumulative_buy = Unbound
    /\ t = 0
    /\ ret = Unbound
    /\ exc = ""

\* A call of calculate_roi(a...): straight-line code, one step.
EnterRoi(a) ==
    \E r \in {calculate_roi(a.purchase_price, a.rental_income, a.expenses,
                              a.appreciation_rate, a.years, a.down_payment)} :
        /\ fn' = "calculate_roi"
        /\ args' = a
        /\ NoLocals
        /\ IF IsExc(r)
           THEN pc' = "raised" /\ exc' = r.exc /\ ret' = Unbound
           ELSE pc' = "returned" /\ exc' = "" /\ ret' = r

\* A call of calculate_rent_vs_buy(a...) in the namespace ns: lines 20-33.
EnterRentVsBuy(a, ns) ==
    \E h \in {TotalHomeCost(a.home_price, a.mortgage_rate, a.years,
                              a.down_payment, ns)} :
        /\ fn' = "calculate_rent_vs_buy"
        /\ args' = a
        /\ ret' = Unbound
        /\ IF IsExc(h)
           THEN /\ pc' = "raised"
                /\ exc' = h.exc
                /\ NoLocals
           ELSE /\ pc' = "loop"
                /\ exc' = ""
                /\ total_rent_paid' = TotalRentPaid(a.rent, a.inflation_rate, a.years)
                /\ monthly_payment' = h.monthly_payment
                /\ total_home_cost' = h.total_home_cost
                /\ break_even' = None
                /\ cumulative_rent' = Q(0)
                /\ cumulative_buy' = a.down_payment
                /\ t' = 0

\* A run of the script with the radio on "Overview": it binds nothing.
OverviewPage ==
    /\ pc = "idle"
    /\ menu' = "Overview"
    /\ globals' = NoGlobals
    /\ UNCHANGED <<pc, fn, args, locals, ret, exc>>

\* A run with the radio on "ROI Calculator": lines 56-61 bind the widgets'
\* values at module level, then the button, if pressed, calls calculate_roi.
ROIPage ==
    /\ pc = "idle"
    /\ \E a \in RoiArgs(SliderYears), pressed \in BOOLEAN :
          /\ menu' = "ROI Calculator"
          /\ globals' = [appreciation_rate |-> a.appreciation_rate]
          /\ IF pressed
             THEN EnterRoi(a)
             ELSE UNCHANGED <<pc, fn, args, locals, ret, exc>>

\* A run with the radio on "Rent vs. Buy": lines 91-96 bind rent, home_price,
\* mortgage_rate, years, inflation_rate and down_payment, and no
\* appreciation_rate; then the button, if pressed, calls calculate_rent_vs_buy.
RentVsBuyPage ==
    /\ pc = "idle"
    /\ \E a \in RentVsBuyArgs(SliderYears), pressed \in BOOLEAN :
          /\ menu' = "Rent vs. Buy"
          /\ globals' = NoGlobals
          /\ IF pressed
             THEN EnterRentVsBuy(a, NoGlobals)
             ELSE UNCHANGED <<pc, fn, args, locals, ret, exc>>

\* calculate_roi called by a holder of the module other than the button.
CallRoi ==
    /\ pc = "idle"
    /\ \E a \in RoiArgs(CallYears) : EnterRoi(a)
    /\ UNCHANGED <<menu, globals>>

\* calculate_rent_vs_buy called by a holder of the module other than the
\* button: its free name resolves in the namespace the last run left.
CallRentVsBuy ==
    /\ pc = "idle"
    /\ \E a \in RentVsBuyArgs(CallYears) : EnterRentVsBuy(a, globals)
    /\ UNCHANGED <<menu, globals>>

\* One iteration of for t in range(1, years + 1): lines 35-40.
LoopStep ==
    /\ pc = "loop"
    /\ t < args.years
    /\ t' = t + 1
    /\ cumulative_rent' =
          RAdd(cumulative_rent, YearRent(args.rent, args.inflation_rate, t'))
    /\ cumulative_buy' =
          IF IsPos(args.mortgage_rate)
          THEN RAdd(cumulative_buy, RMul(monthly_payment, Q(12)))
          ELSE cumulative_buy
    /\ IF BreakEvenReached(cumulative_buy', cumulative_rent')
       THEN break_even' = t' /\ pc' = "exit"
       ELSE break_even' = break_even /\ pc' = "loop"
    /\ UNCHANGED <<menu, globals, fn, args, total_rent_paid, total_home_cost,
                   monthly_payment, ret, exc>>

\* The range is exhausted without a break.
LoopEnd ==
    /\ pc = "loop"
    /\ t >= args.years
    /\ pc' = "exit"
    /\ UNCHANGED <<menu, globals, fn, args, locals, ret, exc>>

\* return total_rent_paid, total_home_cost, break_even
Return ==
    /\ pc = "exit"
    /\ ret' = [total_rent_paid |-> total_rent_paid,
               total_home_cost |-> total_home_cost,
               break_even      |-> break_even]
    /\ pc' = "returned"
    /\ UNCHANGED <<menu, globals, fn, args, locals, exc>>

\* The caller has the outcome (the page renders it, or shows the exception)
\* and the run is over; the frame is gone.
Finish ==
    /\ pc \in {"returned", "raised"}
    /\ pc' = "idle"
    /\ fn' = ""
    /\ args' = Unbound
    /\ NoLocals
    /\ ret' = Unbound
    /\ exc' = ""
    /\ UNCHANGED <<menu, globals>>

Next ==
    \/ OverviewPage
    \/ ROIPage
    \/ RentVsBuyPage
    \/ CallRoi
    \/ CallRentVsBuy
    \/ LoopStep
    \/ LoopEnd
    \/ Return
    \/ Finish

Spec == Init /\ [][Next]_vars


---------------------------------------------------------------------------
(* The properties.  Each is stated over the state a call has reached:      *)
(* its arguments in args, its outcome in pc, ret and exc.                  *)

Returned(f) == fn = f /\ pc = "returned"

Ended(f) == fn = f /\ pc \in {"returned", "raised"}

\* The sum of the first u inflated annual rents, as the specification
\* writes it: the sum over i = 0..u-1 of rent * (1 + inflation_rate/100)^i * 12.
RECURSIVE AnnualRentSum(_, _, _)
AnnualRentSum(rent, inflation_rate, u) ==
    IF u <= 0 THEN Q(0)
    ELSE RAdd(AnnualRentSum(rent, inflation_rate, u - 1),
              RMul(RMul(rent,
                        RPowNat(RAdd(Q(1), RDiv(inflation_rate, Q(100))), u - 1)),
                   Q(12)))

\* cumulative_buy(u) = down_payment + u * 12 * monthly_payment
CumulativeBuyAt(u) == RAdd(args.down_payment, RMul(Q(u * 12), monthly_payment))

\* The years of the horizon in which buying has cost no more than renting.
CrossingYears ==
    {u \in 1..args.years :
        RLeq(CumulativeBuyAt(u), AnnualRentSum(args.rent, args.inflation_rate, u))}

Least(S) == CHOOSE u \in S : \A v \in S : u <= v

\* The outcome of the call's lines 22-29 in the namespace ns agrees with
\* the outcome in the namespace the call ran in.
SameOutcomeIn(ns) ==
    LET here  == TotalHomeCost(args.home_price, args.mortgage_rate, args.years,
                               args.down_payment, globals)
        there == TotalHomeCost(args.home_price, args.mortgage_rate, args.years,
                               args.down_payment, ns)
    IN  /\ IsExc(here) = IsExc(there)
        /\ IF IsExc(here) THEN here.exc = there.exc
           ELSE REq(here.total_home_cost, there.total_home_cost)

StrictlyIncreasing(l) == \A j \in 1..(Len(l) - 1) : RLt(l[j], l[j + 1])

Constant(l) == \A j \in 1..Len(l) : REq(l[j], l[1])

\* C1: for rent >= 0, inflation_rate >= 0 and years >= 1, the returned
\* total_rent_paid is the sum over i = 0..years-1 of
\* rent * (1 + inflation_rate/100)^i * 12, the amount the scan has in
\* cumulative_rent once it has run through year `years`.
C1_TotalRentIsSumOfAnnualRents ==
    (Returned("calculate_rent_vs_buy") /\ args.years >= 1) =>
        /\ REq(ret.total_rent_paid,
               AnnualRentSum(args.rent, args.inflation_rate, args.years))
        /\ (t = args.years => REq(ret.total_rent_paid, cumulative_rent))

\* C2: a call of calculate_rent_vs_buy with mortgage_rate == 0 and years >= 1
\* completes and returns, with a total_home_cost that no appreciation_rate
\* outside the call changes; it does not end in an undefined-reference error.
C2_ZeroRateCallReturns ==
    (Ended("calculate_rent_vs_buy") /\ IsZero(args.mortgage_rate)
        /\ args.years >= 1) =>
        /\ pc = "returned"
        /\ exc # "NameError"
        /\ \A r \in AppreciationRates : SameOutcomeIn([appreciation_rate |-> r])

\* C3: a call of calculate_roi with down_payment == 0 ends in an error and
\* returns no tuple; no returned roi or coc_roi is infinite or nan.
C3_ZeroDownPaymentRaises ==
    Ended("calculate_roi") =>
        /\ IsZero(args.down_payment) => pc = "raised" /\ exc = "ZeroDivisionError"
        /\ pc = "returned" => IsFinite(ret.roi) /\ IsFinite(ret.coc_roi)

C3_Witness ==
    /\ fn = "calculate_roi"
    /\ pc = "raised"
    /\ IsZero(args.down_payment)
    /\ IsPos(args.purchase_price)
    /\ args.years >= 1

C5_OutcomeIndependentOfNamespace ==
    Ended("calculate_rent_vs_buy") =>
        /\ SameOutcomeIn(NoGlobals)
        /\ \A r \in AppreciationRates : SameOutcomeIn([appreciation_rate |-> r])

\* C6 as stated: for rent >= 0, inflation_rate >= 0 and years >= 1,
\* total_rent_paid is strictly increasing in years and strictly increasing
\* in inflation_rate.
C6_Original_StrictlyIncreasing ==
    (Returned("calculate_rent_vs_buy") /\ args.years >= 1) =>
        /\ \A y \in CallYears :
              y > args.years =>
                 RLt(ret.total_rent_paid,
                     TotalRentPaid(args.rent, args.inflation_rate, y))
        /\ \A r \in InflationRates :
              RLt(args.inflation_rate, r) =>
                 RLt(ret.total_rent_paid, TotalRentPaid(args.rent, r, args.years))

\* C6 amended: total_rent_paid is strictly increasing in years when rent > 0,
\* and strictly increasing in inflation_rate when rent > 0 and years >= 2;
\* with rent == 0, or in inflation_rate with years == 1, it does not change.
C6_StrictlyIncreasingForPositiveRent ==
    (Returned("calculate_rent_vs_buy") /\ args.years >= 1) =>
        /\ \A y \in CallYears :
              y > args.years =>
                 IF IsPos(args.rent)
                 THEN RLt(ret.total_rent_paid,
                          TotalRentPaid(args.rent, args.inflation_rate, y))
                 ELSE REq(ret.total_rent_paid,
                          TotalRentPaid(args.rent, args.inflation_rate, y))
        /\ \A r \in InflationRates :
              RLt(args.inflation_rate, r) =>
                 IF IsPos(args.rent) /\ args.years >= 2
                 THEN RLt(ret.total_rent_paid,
                          TotalRentPaid(args.rent, r, args.years))
                 ELSE REq(ret.total_rent_paid,
                          TotalRentPaid(args.rent, r, args.years))

C6_Witness ==
    /\ Returned("calculate_rent_vs_buy")
    /\ IsPos(args.rent)
    /\ args.years = 2
    /\ IsZero(args.inflation_rate)
    /\ \E r \in InflationRates : IsPos(r)

\* C7 as stated: for purchase_price >= 0, down_payment > 0 and years >= 1,
\* property_values is strictly increasing when appreciation_rate > 0 and
\* constant when appreciation_rate == 0.
C7_Original_Monotone ==
    (Returned("calculate_roi") /\ args.years >= 1) =>
        /\ IsPos(args.appreciation_rate) => StrictlyIncreasing(ret.property_values)
        /\ IsZero(args.appreciation_rate) => Constant(ret.property_values)

\* C7 amended: property_values is strictly increasing when
\* appreciation_rate > 0 and purchase_price > 0, and constant when
\* appreciation_rate == 0 or purchase_price == 0.
C7_MonotoneForPositivePrice ==
    (Returned("calculate_roi") /\ args.years >= 1) =>
        IF IsPos(args.appreciation_rate) /\ IsPos(args.purchase_price)
        THEN StrictlyIncreasing(ret.property_values)
        ELSE Constant(ret.property_values)

C7_Witness ==
    /\ Returned("calculate_roi")
    /\ IsPos(args.appreciation_rate)
    /\ IsPos(args.purchase_price)
    /\ args.years >= 2

\* C8: whenever calculate_roi returns, property_values and equities each
\* have years + 1 elements, one per year 0..years.
C8_SequencesHaveYearsPlusOne ==
    Returned("calculate_roi") =>
        /\ Len(ret.property_values) = args.years + 1
        /\ Len(ret.equities) = args.years + 1
        /\ DOMAIN ret.property_values = 1..(args.years + 1)
        /\ DOMAIN ret.equities = 1..(args.years + 1)

C8_Witness ==
    /\ Returned("calculate_roi")
    /\ args.years >= 2
    /\ Len(ret.equities) = 3

\* C9: whenever calculate_roi returns, property_values[0] is purchase_price
\* and equities[0] is down_payment.
C9_YearZeroValues ==
    Returned("calculate_roi") =>
        /\ REq(ret.property_values[1], args.purchase_price)
        /\ REq(ret.equities[1], args.down_payment)

C9_Witness ==
    /\ Returned("calculate_roi")
    /\ IsPos(args.appreciation_rate)
    /\ IsPos(args.purchase_price)
    /\ args.years >= 1
    /\ ~REq(args.purchase_price, args.down_payment)

\* C10: for mortgage_rate > 0 and years >= 1, the returned break_even is
\* not None exactly when the returned total_home_cost is at most the
\* returned total_rent_paid.
C10_BreakEvenAgreesWithTotals ==
    (Returned("calculate_rent_vs_buy") /\ IsPos(args.mortgage_rate)
        /\ args.years >= 1) =>
        ((ret.break_even # None) <=>
            RLeq(ret.total_home_cost, ret.total_rent_paid))

=============================================================================
